---- MODULE Spec2Model ----
(***************************************************************************)
(* State-machine model of process_pending_submissions.py (astrokit): the   *)
(* driver that enumerates SUBMITTED AstrometrySubmission rows and, for     *)
(* each, runs SubmissionHandler.handle_pending_submission against the      *)
(* astrometry.net job service, and the publish step it triggers.           *)
(*                                                                         *)
(* The record store (AstrometrySubmission, AstrometrySubmissionJob,        *)
(* AnalysisResult tables) is the persistent state.  The remote service is  *)
(* the environment: what it answers for the submission being reconciled is *)
(* fixed when sub_status is called (each job is queried at most once per   *)
(* reconciliation, so this loses no behaviour).  Every remote request may  *)
(* raise a transport error.  Nothing in the script catches an exception,   *)
(* so a raise unwinds run(), the driver loop and the process.              *)
(***************************************************************************)
EXTENDS Integers, Sequences, FiniteSets

\* ---------------------------------------------------------------- bounds
NumSubs == 2        \* submissions in the record store
MaxJobs == 2        \* longest job-ID list the remote service returns
MaxRows == 2        \* no reconciliation is explored once the job table has this many rows

Subs == 1..NumSubs

\* ------------------------------------------------------- program constants
SUBMITTED == "SUBMITTED"
COMPLETE == "COMPLETE"
FAILED_TO_PROCESS == "FAILED_TO_PROCESS"
SUCCESS == "SUCCESS"

\* Status strings of jobs/<id>/info; "other" stands for any unrecognised one.
JobStatuses == {"solving", "processing", "success", "failure", "other"}

\* The job IDs the remote service uses for submission s, in listing order.
JobId(s, k) == (s - 1) * MaxJobs + k

JobList(s, n) == [k \in 1..n |-> JobId(s, k)]

\* What client.sub_status can return for submission s: None, or a dict that
\* may lack the 'processing_finished' key, or carry it with a false or a true
\* value; the dict lists n job IDs.
SubStatusResponses(s) ==
    {[kind |-> "None", jobs |-> << >>]} \cup
    {[kind |-> k, jobs |-> JobList(s, n)] :
        k \in {"no_key", "pf_false", "pf_true"}, n \in 0..MaxJobs}

\* The statuses the listed jobs have while the submission is reconciled, by
\* position.  A response that is None or lacks the key leads to no job
\* request, and the statuses are left out.
JobStatusAnswers(r) ==
    IF r.kind \in {"None", "no_key"} THEN {<< >>}
    ELSE [1..Len(r.jobs) -> JobStatuses]

\* ------------------------------------------------------------------ state
VARIABLES
    dbSub,        \* AstrometrySubmission rows: subid -> [status, succeeded_at]
    jobRows,      \* AstrometrySubmissionJob table, in insertion order
    resultRows,   \* AnalysisResult table, in insertion order
    pc,           \* position of the script
    dry_run,      \* --dry_run of the current run (args.dry_run)
    pending,      \* pending_submissions not yet iterated
    selected,     \* the submissions the current run enumerated
    handled,      \* the submissions the current run has called run() on
    cur,          \* handler.submission.subid
    substatus,    \* handle_pending_submission: substatus
    jobstatus,    \* remote: status of each listed job, by position
    idx,          \* position of job_id in job_ids
    num_success,  \* handle_pending_submission: num_success
    job,          \* handle_pending_submission: job (index into jobRows, 0 unbound)
    pre,          \* the store as it was when the current handler started
    created,      \* job IDs given a row by the current handler run
    failWrites,   \* saves of FAILED_TO_PROCESS by the current handler run
    publishCalls, \* calls of process_completed_submission by this handler run
    publishJob,   \* the job row passed to process_completed_submission
    requests,     \* the job requests this handler run has sent, in order
    outcome       \* how the current handler run ended

vars == <<dbSub, jobRows, resultRows, pc, dry_run, pending, selected,
          handled, cur, substatus, jobstatus, idx, num_success, job, pre,
          created, failWrites, publishCalls, publishJob, requests, outcome>>

store == <<dbSub, jobRows, resultRows>>
driver == <<dry_run, pending, selected, handled>>
history == <<pre, created, failWrites, publishCalls, publishJob, requests>>

NoResponse == [kind |-> "None", jobs |-> << >>]

\* ------------------------------------------------ pure parts of the code
\* The queryset of the driver: the rows whose status is SUBMITTED, by subid.
RECURSIVE Ascending(_, _)
Ascending(S, from) ==
    IF from > NumSubs THEN << >>
    ELSE IF from \in S THEN <<from>> \o Ascending(S, from + 1)
    ELSE Ascending(S, from + 1)

\* Variant: the queryset without the status filter.
PendingAll(db) == Ascending(Subs, 1)

\* Variant: the queryset excludes only the COMPLETE rows.
PendingNotComplete(db) ==
    Ascending({s \in Subs : db[s].status /= COMPLETE}, 1)

PendingSubmissions(db) ==
    Ascending({s \in Subs : db[s].status = SUBMITTED}, 1)

\* `substatus and 'processing_finished' in substatus`: the response is not
\* None and has the key; the key's value is not looked at.
Finished(r) == r.kind \in {"pf_false", "pf_true"}

\* Variant: 'failure' is not recognised and falls to the unknown-status branch.
JobBranchNoFailure(status) ==
    IF status = "solving" \/ status = "processing" THEN "still_solving"
    ELSE IF status /= "success" THEN "unknown"
    ELSE "success"

\* Variant: the 'failure' branch does not return and the job is recorded.
JobBranchFailureRecorded(status) ==
    IF status = "solving" \/ status = "processing" THEN "still_solving"
    ELSE IF status = "failure" THEN "success"
    ELSE IF status /= "success" THEN "unknown"
    ELSE "success"

\* Variant: every status that is not pending or 'success' counts as failed.
JobBranchUnknownFails(status) ==
    IF status = "solving" \/ status = "processing" THEN "still_solving"
    ELSE IF status /= "success" THEN "failed"
    ELSE "success"

\* Variant: 'solving' is not tested for and the job is taken as done.
JobBranchSolvingSkipped(status) ==
    IF status = "processing" THEN "still_solving"
    ELSE IF status = "failure" THEN "failed"
    ELSE IF status \notin {"success", "solving"} THEN "unknown"
    ELSE "success"

\* The if/elif chain on info['status'].
JobBranch(status) ==
    IF status = "solving" \/ status = "processing" THEN "still_solving"
    ELSE IF status = "failure" THEN "failed"
    ELSE IF status /= "success" THEN "unknown"
    ELSE "success"

\* Variant: the completion test without `num_success > 0`.
AllCountedNoGuard(n, total) == n = total

\* Variant: the completion test with the guard off by one.
AllSucceededOffByOne(n, total) == n > 1 /\ n = total

\* `num_success > 0 and num_success == len(job_ids)`
AllSucceeded(n, total) == n > 0 /\ n = total

\* The name `args` read by process_completed_submission, save_submission_
\* results and process_fits_image is the module global, which the script
\* binds to the argparse.Namespace (the dict built by vars(args) is only the
\* parameter of process_pending_submissions and self.args, which no method
\* reads).  A Namespace has no __getitem__: args['dry_run'] raises TypeError.
GlobalArgs == "Namespace"
Subscriptable(obj) == obj = "dict"

\* How a handler run can end by a transport error: the request that raised.
TransportErrors == {"sub_status_error", "info_error", "annotations_error"}

\* the head of `for job_id in job_ids`
LoopHead(i, total) == IF i <= total THEN "job_info" ELSE "completed"

job_ids == substatus.jobs

NoSnapshot == << >>

\* ------------------------------------------------------------------ Init
FreshRow == [status |-> SUBMITTED, succeeded_at |-> FALSE]

InitRest ==
    /\ jobRows = << >>
    /\ resultRows = << >>
    /\ pc = "idle"
    /\ dry_run = FALSE
    /\ pending = << >>
    /\ selected = {}
    /\ handled = {}
    /\ cur = 0
    /\ substatus = NoResponse
    /\ jobstatus = << >>
    /\ idx = 0
    /\ num_success = 0
    /\ job = 0
    /\ pre = NoSnapshot
    /\ created = << >>
    /\ failWrites = 0
    /\ publishCalls = 0
    /\ publishJob = 0
    /\ requests = << >>
    /\ outcome = "none"

\* Every submission has just been uploaded: SUBMITTED, no job or result rows.
Init ==
    /\ dbSub = [s \in Subs |-> FreshRow]
    /\ InitRest

\* The store as any earlier activity may have left it: a row in any status
\* (succeeded_at goes with COMPLETE).
StoreRows ==
    {[status |-> st, succeeded_at |-> (st = COMPLETE)] :
        st \in {SUBMITTED, COMPLETE, FAILED_TO_PROCESS}}

InitStore ==
    /\ dbSub \in [Subs -> StoreRows]
    /\ InitRest

\* ---------------------------------------------------------------- driver
\* __main__ and process_pending_submissions up to the queryset.
StartRun ==
    /\ pc = "idle"
    /\ \E d \in BOOLEAN : dry_run' = d
    /\ pending' = PendingSubmissions(dbSub)
    /\ selected' = {pending'[k] : k \in 1..Len(pending')}
    /\ handled' = {}
    /\ pc' = "loop"
    /\ UNCHANGED <<store, cur, substatus, jobstatus, idx, num_success, job,
                   history, outcome>>

\* `for submission in pending_submissions`: SubmissionHandler(...).run()
NextSubmission ==
    /\ pc = "loop"
    /\ pending /= << >>
    /\ Len(jobRows) < MaxRows
    /\ cur' = Head(pending)
    /\ pending' = Tail(pending)
    /\ handled' = handled \cup {Head(pending)}
    /\ substatus' = NoResponse
    /\ jobstatus' = << >>
    /\ idx' = 0
    /\ num_success' = 0
    /\ job' = 0
    /\ pre' = store
    /\ created' = << >>
    /\ failWrites' = 0
    /\ publishCalls' = 0
    /\ publishJob' = 0
    /\ requests' = << >>
    /\ outcome' = "running"
    /\ pc' = "sub_status"
    /\ UNCHANGED <<store, dry_run, selected>>

Forget ==
    /\ dry_run' = FALSE
    /\ pending' = << >>
    /\ selected' = {}
    /\ handled' = {}
    /\ cur' = 0
    /\ substatus' = NoResponse
    /\ jobstatus' = << >>
    /\ idx' = 0
    /\ num_success' = 0
    /\ job' = 0
    /\ pre' = NoSnapshot
    /\ created' = << >>
    /\ failWrites' = 0
    /\ publishCalls' = 0
    /\ publishJob' = 0
    /\ requests' = << >>
    /\ outcome' = "none"

\* The loop is exhausted: the script ends normally.
EndRun ==
    /\ pc = "loop"
    /\ pending = << >>
    /\ pc' = "idle"
    /\ Forget
    /\ UNCHANGED store

\* An exception nobody catches has unwound the script: the process dies
\* with the rest of pending_submissions not iterated.
Exit ==
    /\ pc = "crashed"
    /\ pc' = "idle"
    /\ Forget
    /\ UNCHANGED store

\* --------------------------------------------- handle_pending_submission
ReturnFalse ==
    /\ outcome' = "False"
    /\ pc' = "loop"

Raise(what) ==
    /\ outcome' = what
    /\ pc' = "crashed"

\* client.sub_status(subid, True) and the processing_finished test.
SubStatus ==
    /\ pc = "sub_status"
    /\ \E r \in SubStatusResponses(cur) :
         \E js \in JobStatusAnswers(r) :
            /\ substatus' = r
            /\ jobstatus' = js
            /\ IF ~Finished(r)
                 THEN ReturnFalse /\ UNCHANGED idx
                 ELSE /\ idx' = 1
                      /\ pc' = LoopHead(1, Len(r.jobs))
                      /\ UNCHANGED outcome
    /\ UNCHANGED <<store, driver, cur, num_success, job, history>>

SubStatusRaises ==
    /\ pc = "sub_status"
    /\ Raise("sub_status_error")
    /\ UNCHANGED <<store, driver, cur, substatus, jobstatus, idx, num_success,
                   job, history>>

\* client.send_request('jobs/%d/info') and the branches on its status.
JobInfo ==
    /\ pc = "job_info"
    /\ LET b == JobBranch(jobstatus[idx]) IN
         /\ IF b = "success"
              THEN pc' = "annotations" /\ UNCHANGED outcome
              ELSE ReturnFalse
         /\ IF b = "failed"
              THEN /\ dbSub' = [dbSub EXCEPT ![cur].status = FAILED_TO_PROCESS]
                   /\ failWrites' = failWrites + 1
              ELSE UNCHANGED <<dbSub, failWrites>>
    /\ requests' = Append(requests, [kind |-> "info", pos |-> idx])
    /\ UNCHANGED <<jobRows, resultRows, driver, cur, substatus, jobstatus, idx,
                   num_success, job, pre, created, publishCalls, publishJob>>

JobInfoRaises ==
    /\ pc = "job_info"
    /\ Raise("info_error")
    /\ requests' = Append(requests, [kind |-> "info", pos |-> idx])
    /\ UNCHANGED <<store, driver, cur, substatus, jobstatus, idx, num_success,
                   job, pre, created, failWrites, publishCalls, publishJob>>

\* client.send_request('jobs/%d/annotations'), objects.create, num_success += 1.
Annotations ==
    /\ pc = "annotations"
    /\ jobRows' = Append(jobRows, [submission |-> cur, jobid |-> job_ids[idx],
                                   status |-> SUCCESS])
    /\ job' = Len(jobRows) + 1
    /\ num_success' = num_success + 1
    /\ created' = Append(created, job_ids[idx])
    /\ idx' = idx + 1
    /\ pc' = LoopHead(idx + 1, Len(job_ids))
    /\ requests' = Append(requests, [kind |-> "annotations", pos |-> idx])
    /\ UNCHANGED <<dbSub, resultRows, driver, cur, substatus, jobstatus, pre,
                   failWrites, publishCalls, publishJob, outcome>>

AnnotationsRaises ==
    /\ pc = "annotations"
    /\ Raise("annotations_error")
    /\ requests' = Append(requests, [kind |-> "annotations", pos |-> idx])
    /\ UNCHANGED <<store, driver, cur, substatus, jobstatus, idx, num_success,
                   job, pre, created, failWrites, publishCalls, publishJob>>

\* After the loop: the completion test, and the call it guards.
AfterLoop ==
    /\ pc = "completed"
    /\ IF AllSucceeded(num_success, Len(job_ids))
         THEN /\ publishCalls' = publishCalls + 1
              /\ publishJob' = job
              /\ pc' = "process_completed"
              /\ UNCHANGED outcome
         ELSE /\ ReturnFalse
              /\ UNCHANGED <<publishCalls, publishJob>>
    /\ UNCHANGED <<store, driver, cur, substatus, jobstatus, idx, num_success,
                   job, pre, created, failWrites, requests>>

\* ------------------------------------------ process_completed_submission
\* Variant: the submission is stamped and saved COMPLETE before the results
\* are saved.
CreateResultAndComplete ==
    /\ pc = "process_completed"
    /\ resultRows' = Append(resultRows, [astrometry_job |-> publishJob,
                                         status |-> "default",
                                         urls |-> {}])
    /\ dbSub' = [dbSub EXCEPT ![cur] = [status |-> COMPLETE,
                                        succeeded_at |-> TRUE]]
    /\ pc' = "save_results"
    /\ UNCHANGED <<jobRows, driver, cur, substatus, jobstatus, idx,
                   num_success, job, history, outcome>>

\* AnalysisResult.objects.create(astrometry_job=job)
CreateResult ==
    /\ pc = "process_completed"
    /\ resultRows' = Append(resultRows, [astrometry_job |-> publishJob,
                                         status |-> "default",
                                         urls |-> {}])
    /\ pc' = "save_results"
    /\ UNCHANGED <<dbSub, jobRows, driver, cur, substatus, jobstatus, idx,
                   num_success, job, history, outcome>>

\* save_submission_results up to its first `if not args['dry_run']`, which
\* raises before any upload.
SaveSubmissionResults ==
    /\ pc = "save_results"
    /\ ~Subscriptable(GlobalArgs)
    /\ Raise("TypeError")
    /\ UNCHANGED <<store, driver, cur, substatus, jobstatus, idx, num_success,
                   job, history>>

Next ==
    \/ StartRun
    \/ NextSubmission
    \/ EndRun
    \/ Exit
    \/ SubStatus
    \/ SubStatusRaises
    \/ JobInfo
    \/ JobInfoRaises
    \/ Annotations
    \/ AnnotationsRaises
    \/ AfterLoop
    \/ CreateResult
    \/ SaveSubmissionResults

Spec == Init /\ [][Next]_vars

SpecStore == InitStore /\ [][Next]_vars

\* ================================================================ claims
\* A handler run is over: it returned, or an exception left it.
Ended == outcome \in {"False", "TypeError"} \cup TransportErrors

\* A handler run is under way or over, and no remote request of it raised.
Answered == cur /= 0 /\ pc /= "sub_status" /\ outcome \notin TransportErrors

\* The rows the current handler run has appended to the job table.
NewJobRows == SubSeq(jobRows, Len(pre[2]) + 1, Len(jobRows))

JobRow(s, j) == [submission |-> s, jobid |-> j, status |-> SUCCESS]

\* The position of the first listed job whose status is not 'success'
\* (one past the end when there is none).
RECURSIVE FirstNonSuccess(_, _)
FirstNonSuccess(js, k) ==
    IF k > Len(js) THEN k
    ELSE IF js[k] /= "success" THEN k
    ELSE FirstNonSuccess(js, k + 1)

\* ---------------------------------------------------------------- C1
\* C1: when the status response is null or carries processing_finished =
\* false, the handler returns not-done and writes nothing: the store is as
\* it was when the handler started.
C1_NoWritesUnlessFinished ==
    (Answered /\ substatus.kind \in {"None", "pf_false"})
        => /\ store = pre
           /\ (Ended => outcome = "False")

\* ---------------------------------------------------------------- C2
\* C2 as stated: a finished batch with at least one 'failure' job ends the
\* run with the submission saved as FAILED_TO_PROCESS exactly once, and no
\* job listed after a failing one has been given a row by the run.
C2_AnyFailureFails ==
    (Answered /\ Ended /\ substatus.kind = "pf_true"
       /\ \E k \in 1..Len(jobstatus) : jobstatus[k] = "failure")
        => /\ failWrites = 1
           /\ dbSub[cur].status = FAILED_TO_PROCESS
           /\ \A k \in 1..Len(jobstatus) : jobstatus[k] = "failure" =>
                 \A m \in (k + 1)..Len(job_ids) :
                    \A n \in 1..Len(created) : created[n] /= job_ids[m]

\* C2 amended: a finished batch whose first job that is not 'success' (in
\* listed order) reports 'failure' ends the run, when every request is
\* answered, with the submission saved as FAILED_TO_PROCESS exactly once and
\* with rows for exactly the jobs listed before the failing one; no run saves
\* FAILED_TO_PROCESS more than once.
C2_FirstNonSuccessFailureFails ==
    /\ failWrites <= 1
    /\ (Answered /\ Ended /\ substatus.kind = "pf_true"
          /\ FirstNonSuccess(jobstatus, 1) <= Len(jobstatus)
          /\ jobstatus[FirstNonSuccess(jobstatus, 1)] = "failure")
         => /\ failWrites = 1
            /\ outcome = "False"
            /\ dbSub[cur].status = FAILED_TO_PROCESS
            /\ created = SubSeq(job_ids, 1, FirstNonSuccess(jobstatus, 1) - 1)
            /\ NewJobRows = [k \in 1..Len(created) |-> JobRow(cur, created[k])]

C2_Witness ==
    /\ Ended
    /\ substatus.kind = "pf_true"
    /\ jobstatus = <<"success", "failure">>
    /\ failWrites = 1
    /\ dbSub[cur].status = FAILED_TO_PROCESS
    /\ Len(created) = 1

\* ---------------------------------------------------------------- C3
\* C3: for a finished, non-empty batch in which every job reports 'success'
\* (and every request is answered), the run appends exactly one row per
\* listed job ID, in listed order, and calls process_completed_submission
\* exactly once, with the row created last; no run calls it twice.
AllSuccessBatch ==
    /\ substatus.kind = "pf_true"
    /\ Len(job_ids) > 0
    /\ \A k \in 1..Len(jobstatus) : jobstatus[k] = "success"

C3_AllSuccessPublishesOnce ==
    /\ publishCalls <= 1
    /\ (Answered /\ Ended /\ AllSuccessBatch)
         => /\ created = job_ids
            /\ NewJobRows = [k \in 1..Len(job_ids) |-> JobRow(cur, job_ids[k])]
            /\ publishCalls = 1
            /\ publishJob = Len(jobRows)
            /\ jobRows[publishJob].jobid = job_ids[Len(job_ids)]

C3_Witness ==
    /\ Ended
    /\ AllSuccessBatch
    /\ Len(job_ids) = 2
    /\ publishCalls = 1
    /\ created = job_ids

\* ---------------------------------------------------------------- C4
\* Every job ID of the response has a SUCCESS row of this submission.
AllJobsRecorded ==
    \A k \in 1..Len(job_ids) :
        \E n \in 1..Len(jobRows) : jobRows[n] = JobRow(cur, job_ids[k])

\* C4: once a reconciliation of a finished, non-empty batch is over, the
\* submission is COMPLETE in the store if and only if every job ID the
\* remote service returned has a SUCCESS row.
C4_CompleteIffAllJobsRecorded ==
    (Answered /\ Ended /\ substatus.kind = "pf_true" /\ Len(job_ids) > 0)
        => (dbSub[cur].status = COMPLETE <=> AllJobsRecorded)

\* ---------------------------------------------------------------- C5
\* C5: a run with --dry_run persists nothing: at every point of a dry run the
\* store equals the store the handler started with.
C5_DryRunWritesNothing ==
    (dry_run /\ cur /= 0) => store = pre

\* ---------------------------------------------------------------- C6
\* C6: a finished submission with an empty job-ID list is not a success: the
\* publisher is not called, no AnalysisResult row is added and the status
\* does not become COMPLETE.
C6_EmptyListNeverSuccess ==
    (Answered /\ Finished(substatus) /\ Len(job_ids) = 0)
        => /\ publishCalls = 0
           /\ resultRows = pre[3]
           /\ dbSub[cur].status /= COMPLETE
           /\ pc \notin {"process_completed", "save_results"}

C6_Witness ==
    /\ Ended
    /\ outcome = "False"
    /\ substatus.kind = "pf_true"
    /\ Len(job_ids) = 0
    /\ publishCalls = 0

\* ---------------------------------------------------------------- C7
JobRowsOf(s) == SelectSeq(jobRows, LAMBDA r : r.submission = s)

ResultRowsOf(s) ==
    SelectSeq(resultRows,
              LAMBDA r : r.astrometry_job \in 1..Len(jobRows)
                         /\ jobRows[r.astrometry_job].submission = s)

\* C7: a submission that is COMPLETE in the store is left alone by every
\* step of every driver run: it is not enumerated, no handler is started
\* for it (so no remote request is made for it), and its Submission row, its
\* job rows and its result rows stay as they are.
C7_CompleteIsNoOp ==
    [][\A s \in Subs : dbSub[s].status = COMPLETE =>
          /\ dbSub'[s] = dbSub[s]
          /\ JobRowsOf(s)' = JobRowsOf(s)
          /\ ResultRowsOf(s)' = ResultRowsOf(s)
          /\ s \notin selected'
          /\ cur' /= s
          /\ \A k \in 1..Len(pending') : pending'[k] /= s]_vars

C7_Witness ==
    /\ dbSub[1].status = COMPLETE
    /\ cur = 2
    /\ outcome = "False"
    /\ selected = {2}
    /\ Len(jobRows) > 0

\* ---------------------------------------------------------------- C8
\* C8: when the run ends still-pending because a job is 'solving' or
\* 'processing' or has an unrecognised status, the run has written nothing:
\* no job row at all (not even for the jobs listed before it) and the same
\* Submission row.
C8_PendingWritesNothing ==
    (Answered /\ Ended /\ substatus.kind = "pf_true"
       /\ FirstNonSuccess(jobstatus, 1) <= Len(jobstatus)
       /\ JobBranch(jobstatus[FirstNonSuccess(jobstatus, 1)])
             \in {"still_solving", "unknown"})
        => /\ outcome = "False"
           /\ store = pre

\* ---------------------------------------------------------------- C9
\* C9: a failure raised while one submission is handled ends that
\* submission's processing only: when it has ended the script, every
\* submission the run enumerated has been reconciled.
C9_FailureIsolated ==
    (pc = "crashed" /\ outcome \in TransportErrors) => selected \subseteq handled

\* --------------------------------------------------------------- C10
\* C10: when a step of the publish raises (here the first upload statement
\* of save_submission_results), the Submission row is still SUBMITTED with
\* succeeded_at unset, the job rows and the AnalysisResult row created by the
\* run are still in the store, and the driver's next queryset selects the
\* submission again.
C10_PublishFailureLeavesSubmitted ==
    (Ended /\ outcome = "TypeError")
        => /\ dbSub[cur].status = SUBMITTED
           /\ ~dbSub[cur].succeeded_at
           /\ NewJobRows = [k \in 1..Len(created) |-> JobRow(cur, created[k])]
           /\ Len(created) > 0
           /\ SubSeq(jobRows, 1, Len(pre[2])) = pre[2]
           /\ resultRows = Append(pre[3], [astrometry_job |-> publishJob,
                                           status |-> "default", urls |-> {}])
           /\ \E k \in 1..Len(PendingSubmissions(dbSub)) :
                 PendingSubmissions(dbSub)[k] = cur

\* A second run has selected the submission again after a failed publish and
\* failed to publish it once more.
C10_Witness ==
    /\ outcome = "TypeError"
    /\ pc = "crashed"
    /\ Len(pre[3]) = 1
    /\ jobRows[pre[3][1].astrometry_job].submission = cur
    /\ Len(resultRows) = 2
    /\ dbSub[cur].status = SUBMITTED

\* --------------------------------------------------------------- C11
\* C11: across driver runs every remote job ID of a submission has at most
\* one SubmissionJob row: no two rows of the job table carry the same
\* submission and job ID.
C11_OneRowPerJobId ==
    \A m, n \in 1..Len(jobRows) :
        (jobRows[m].submission = jobRows[n].submission
           /\ jobRows[m].jobid = jobRows[n].jobid) => m = n

\* --------------------------------------------------------------- C12
\* The AnalysisResult URL fields, in the order save_submission_results and
\* process_fits_image assign them.
UrlFields ==
    <<"astrometry_annotated_display_url", "astrometry_corr_fits_url",
      "astrometry_image_fits_url", "coords_plot_url", "coords_fits_url",
      "coords_json_url", "psf_scatter_url", "psf_bar_url", "psf_hist_url",
      "psf_residual_image_url">>

\* The result row the current handler run created.
NewResult == resultRows[Len(resultRows)]

\* C12: a non-dry-run publish assigns each of the ten URL fields of the
\* AnalysisResult, and only then marks the AnalysisResult and the Submission
\* COMPLETE: when the publish of a run whose requests were all answered is
\* over, the result carries all ten fields and both statuses are COMPLETE;
\* while a field is missing neither status is COMPLETE.
C12_PublishAssignsAllUrls ==
    (Answered /\ ~dry_run /\ publishCalls = 1 /\ Len(resultRows) > Len(pre[3]))
        => /\ (NewResult.urls /= {UrlFields[k] : k \in 1..Len(UrlFields)}
                 => /\ NewResult.status /= COMPLETE
                    /\ dbSub[cur].status /= COMPLETE)
           /\ (Ended
                 => /\ NewResult.urls = {UrlFields[k] : k \in 1..Len(UrlFields)}
                    /\ NewResult.status = COMPLETE
                    /\ dbSub[cur].status = COMPLETE)

UnknownStatusHit ==
    /\ Finished(substatus)
    /\ FirstNonSuccess(jobstatus, 1) <= Len(jobstatus)
    /\ jobstatus[FirstNonSuccess(jobstatus, 1)]
          \notin {"solving", "processing", "success", "failure"}

\* C14: a job whose status is none of 'solving', 'processing', 'success',
\* 'failure' is treated as still pending: the run returns not-done without
\* raising, FAILED_TO_PROCESS is not saved, the Submission row is as it was
\* (SUBMITTED), and the driver's next queryset selects the submission again.
C14_UnknownStatusIsPending ==
    (Answered /\ Ended /\ UnknownStatusHit)
        => /\ outcome = "False"
           /\ failWrites = 0
           /\ dbSub[cur] = pre[1][cur]
           /\ dbSub[cur].status = SUBMITTED
           /\ \E k \in 1..Len(PendingSubmissions(dbSub)) :
                 PendingSubmissions(dbSub)[k] = cur

C14_Witness ==
    /\ Ended
    /\ outcome = "False"
    /\ substatus.kind = "pf_true"
    /\ jobstatus = <<"success", "other">>
    /\ dbSub[cur].status = SUBMITTED

\* --------------------------------------------------------------- C15
\* C15: job statuses are evaluated in listed order and the first job that is
\* not 'success' halts the run: every jobs/<id>/info and jobs/<id>/annotations
\* request of a run is for a job at or before that position, requests go in
\* listed order (info, then annotations, job by job), and no annotations
\* request is sent for the job that is not 'success'.
C15_NoRequestAfterFirstNonSuccess ==
    cur /= 0 =>
      /\ \A n \in 1..Len(requests) :
            /\ requests[n].pos <= FirstNonSuccess(jobstatus, 1)
            /\ requests[n].pos <= Len(job_ids)
            /\ requests[n].pos = (n + 1) \div 2
            /\ requests[n].kind = (IF n % 2 = 1 THEN "info" ELSE "annotations")
            /\ (requests[n].kind = "annotations"
                  => jobstatus[requests[n].pos] = "success")
      /\ (Ended /\ Answered /\ Finished(substatus)
            /\ FirstNonSuccess(jobstatus, 1) <= Len(jobstatus))
           => /\ Len(requests) = 2 * FirstNonSuccess(jobstatus, 1) - 1
              /\ outcome = "False"

C15_Witness ==
    /\ Ended
    /\ outcome = "False"
    /\ jobstatus = <<"failure", "success">>
    /\ requests = <<[kind |-> "info", pos |-> 1]>>

\* --------------------------------------------------------------- C16
\* C16: when a fully successful submission has been published by a dry run,
\* the Submission row is not updated (still SUBMITTED, succeeded_at unset)
\* while the AnalysisResult created by the run is stored with status
\* COMPLETE.
C16_DryRunSavesResultOnly ==
    (dry_run /\ Answered /\ Ended /\ publishCalls = 1)
        => /\ dbSub[cur].status = SUBMITTED
           /\ ~dbSub[cur].succeeded_at
           /\ Len(resultRows) = Len(pre[3]) + 1
           /\ NewResult.status = COMPLETE

\* --------------------------------------------------------------- C17
\* C17: a Submission status changes only from SUBMITTED, and only to
\* COMPLETE or FAILED_TO_PROCESS; a submission stored as COMPLETE or
\* FAILED_TO_PROCESS keeps its row and gains no SubmissionJob or
\* AnalysisResult row in any later step of any driver run, and no handler
\* is started for it.
C17_TerminalStatusesAbsorbing ==
    [][\A s \in Subs :
          /\ dbSub'[s].status /= dbSub[s].status
                => /\ dbSub[s].status = SUBMITTED
                   /\ dbSub'[s].status \in {COMPLETE, FAILED_TO_PROCESS}
          /\ dbSub[s].status \in {COMPLETE, FAILED_TO_PROCESS}
                => /\ dbSub'[s] = dbSub[s]
                   /\ JobRowsOf(s)' = JobRowsOf(s)
                   /\ ResultRowsOf(s)' = ResultRowsOf(s)
                   /\ (cur' = s => cur = s)
                   /\ (s \in selected' => s \in selected)]_vars

\* Submission 1 was failed by an earlier run (after its first job was
\* recorded); a later run enumerates and reconciles only submission 2.
C17_Witness ==
    /\ dbSub[1].status = FAILED_TO_PROCESS
    /\ Len(JobRowsOf(1)) = 1
    /\ selected = {2}
    /\ cur = 2
    /\ Ended
    /\ pre[1][1].status = FAILED_TO_PROCESS

\* --------------------------------------------------------------- C19
\* C19: after any sequence of driver runs a submission has at most one
\* AnalysisResult row.
C19_OneResultPerSubmission ==
    \A s \in Subs : Len(ResultRowsOf(s)) <= 1

\* --------------------------------------------------------------- C20
\* C20 (a finite form): once the remote service reports the submission
\* finished with a non-empty job list whose jobs are all 'success', a
\* non-dry run in which no request fails ends with the Submission COMPLETE.
C20_SuccessfulRunCompletes ==
    (~dry_run /\ Answered /\ Ended /\ AllSuccessBatch)
        => /\ dbSub[cur].status = COMPLETE
           /\ dbSub[cur].succeeded_at
====
